---------------------------- MODULE Spec2Model ----------------------------
(***************************************************************************)
(* Model of Final_notebook.ipynb (variational language model, QHack 2021). *)
(*                                                                         *)
(* The notebook is a sequence of cells.  Five specifications cover it:     *)
(*   Spec        preprocessing, set up and the training loop;              *)
(*   SpecQuery   the application cell (get_most_probable_word);            *)
(*   SpecRank    the ranking/printing expression of the application cell,  *)
(*               as a pure function of its inputs;                         *)
(*   SpecConfig  the sizes derived from the configuration (n_dim, n_wires, *)
(*               the shape of parameters);                                 *)
(*   SpecData    the word vectors selected for a training sentence and for *)
(*               the query sentence.                                       *)
(*                                                                         *)
(* Python arrays and lists are 0-based: they are modelled as functions     *)
(* with domain 0..n-1.  utils.py and config.py are not part of the source  *)
(* at hand; what the model needs of them is taken from the notebook's      *)
(* text and from the traceback the notebook preserves.                     *)
(***************************************************************************)
EXTENDS Integers, Sequences, FiniteSets, TLC

VARIABLES
    pc,               \* position in the notebook
    num_words,        \* config['NUM_WORDS']
    qbits_per_word,   \* config['QUBITS_PER_WORDS']
    num_layers,       \* config['NUM_LAYERS']
    len_sentences,    \* len(sentences)
    missing_word,     \* missing_word[s]: masked position of sentence s
    all_indices,      \* all_indices[s][j]: register of word j of sentence s
    n_dim,            \* number of components PCA keeps
    reduced_columns,  \* embeddings_reduced.shape[1]
    n_wires,          \* number of wires of the device
    dev,              \* the device bound to compute_overlap_words
    epoch, i,         \* loop variables of the training loop
    ci,               \* the loop variable i of cost (position in the batch)
    cost,             \* the accumulator of cost
    parameters,       \* current value of parameters (abstract)
    parameters0,      \* value np.random.rand gave parameters (history)
    last_step,        \* value the last completed opt.step returned (history)
    steps,            \* number of completed opt.step calls (history)
    time_lines,       \* number of 'Time:' lines printed
    call,             \* the latest call of compute_overlap_words
    parameters_shape, \* parameters.shape
    vocab,            \* the dictionary word -> id (vocab.p)
    embeddings_norm,  \* norm of each row of embeddings_reduced_norm
    id_to_word,       \* the dictionary id -> word
    word_indices,     \* list(id_to_word.keys())
    list_index,       \* the ids of the words of input_sentence
    missing_index,    \* the position of '[mask]' in input_sentence
    caller,           \* which call of get_most_probable_word is running
    position,         \* argument of get_most_probable_word
    look_in,          \* the candidates: positions in word_indices
    query_indices,    \* the list indices of get_most_probable_word
    probas,           \* the list probas of get_most_probable_word
    p,                \* the scores the application cell ranks
    ranking,          \* np.argsort(p)[::-1]
    printed,          \* the words printed by the application cell
    encoded           \* the rows of embeddings_reduced_norm last selected

cfgVars   == <<num_words, qbits_per_word, num_layers>>
dataVars  == <<len_sentences, missing_word, all_indices, n_dim, reduced_columns>>
devVars   == <<n_wires, dev>>
loopVars  == <<epoch, i, ci, cost>>
trainVars == <<loopVars, parameters, parameters0, last_step, parameters_shape, steps,
               time_lines, call>>
vocabVars == <<vocab, embeddings_norm, id_to_word, word_indices>>
callVars  == <<list_index, missing_index, caller, position, look_in,
               query_indices, probas>>
rankVars  == <<p, ranking, printed>>
encVars   == <<encoded>>
queryVars == <<vocabVars, callVars, rankVars, encVars>>
vars      == <<pc, cfgVars, dataVars, devVars, trainVars, queryVars>>

---------------------------------------------------------------------------
(* Bounds of the model.                                                    *)

MaxNumWords  == 3   \* num_words ranges over 2..MaxNumWords in Spec
MaxSentences == 4   \* len(sentences) ranges over 0..MaxSentences
batch_size   == 2   \* 10 in the notebook; scaled down with the data set
MaxParam     == 1   \* parameters takes abstract values 0..MaxParam
ProbDenom    == 2   \* probabilities are multiples of 1/ProbDenom
CfgMaxNumWords == 5 \* num_words ranges over 1..CfgMaxNumWords in SpecConfig
CfgMaxQubits == 4   \* qbits_per_word ranges over 1..CfgMaxQubits
CfgMaxLayers == 3   \* num_layers ranges over 1..CfgMaxLayers
QueryMaxNumWords == 8 \* num_words ranges over 1..QueryMaxNumWords in SpecQuery
MaxZeroNorm  == 1   \* at most MaxZeroNorm words have a zero embedding
LookInSize   == 2   \* 10 in the notebook: number of candidates drawn
DataMaxSentenceLen == 3 \* sentences.npy has DataMaxSentenceLen columns

(* Program constants.                                                      *)

epochs == 2

ExamplePosition == 4   \* get_most_probable_word(list_index, 4, ...)

TopK == 5              \* [0:5] of the ranking is printed

NoCall == [made |-> FALSE, returned |-> FALSE]

NoRows == [cell |-> "none", ids |-> <<>>, rows |-> <<>>]

(* Python values: None, and an integer array.                              *)
None == [kind |-> "None"]

NdArray(f) == [kind |-> "ndarray", data |-> f]

Devices == {"default.qubit", "braket.aws.qubit"}

ParamValues == 0..MaxParam

---------------------------------------------------------------------------
(* Sentence preprocessing.                                                 *)

Arange(n) == [j \in 0..(n - 1) |-> j]

(* all_indices: every row starts as arange(max_length); row s then gets    *)
(* max_length written at column missing_word[s].                           *)
AllIndicesMutant(max_length, n, mw) ==
    [s \in 0..(n - 1) |->
        [j \in 0..(max_length - 1) |->
            IF j = mw[s] THEN max_length - 1 ELSE Arange(max_length)[j]]]

AllIndices(max_length, n, mw) ==
    [s \in 0..(n - 1) |->
        [j \in 0..(max_length - 1) |->
            IF j = mw[s] THEN max_length ELSE Arange(max_length)[j]]]

RandIntMutant(low, high, size) == [0..(size - 1) -> low..high]

(* np.random.randint(0, num_words, size=len(sentences)): any array of      *)
(* len(sentences) values in 0..num_words-1.                                *)
RandInt(low, high, size) == [0..(size - 1) -> low..(high - 1)]

RECURSIVE Pow2(_)
Pow2(e) == IF e = 0 THEN 1 ELSE 2 * Pow2(e - 1)

NDimMutant(q) == 2 * q

(* n_dim = 2**qbits_per_word                                               *)
NDim(q) == Pow2(q)

Preprocess ==
    /\ pc = "preprocess"
    /\ n_dim' = NDim(qbits_per_word)
    /\ reduced_columns' = NDim(qbits_per_word)
    /\ \E mw \in RandInt(0, num_words, len_sentences) :
          /\ missing_word' = mw
          /\ all_indices' = AllIndices(num_words, len_sentences, mw)
    /\ pc' = "setup"
    /\ UNCHANGED <<queryVars, cfgVars, len_sentences, devVars, trainVars>>

---------------------------------------------------------------------------
(* Set up: the device and the circuit.                                     *)

NWiresMutant(q, max_length) == q * max_length + 1

NWires(q, max_length) == q * (max_length + 1) + 1

SetUp ==
    /\ pc = "setup"
    /\ n_wires' = NWires(qbits_per_word, num_words)
    /\ dev' \in Devices
    /\ pc' = "training_init"
    /\ UNCHANGED <<queryVars, cfgVars, dataVars, trainVars>>

(* encode_words(embeddings, indices): row k of embeddings is prepared, by  *)
(* a QubitStateVector operation, on the register indices[k].               *)
EncodeWordsOps(indices) ==
    [k \in 1..Cardinality(DOMAIN indices) |->
        [name |-> "QubitStateVector", register |-> indices[k - 1]]]

(* The operations queued by one call of compute_overlap_words.             *)
CircuitOps(indices, target_word) ==
    EncodeWordsOps(indices)
        \o <<[name |-> "circuit_final", register |-> target_word]>>

(* default.qubit refuses a QubitStateVector that is not the first          *)
(* operation of the circuit.                                               *)
DeviceRejectsMutant(d, ops) == FALSE

DeviceRejects(d, ops) ==
    /\ d = "default.qubit"
    /\ \E n \in 2..Len(ops) : ops[n].name = "QubitStateVector"

(* The expectation of PauliZ on the ancilla, in units of 1/ProbDenom,      *)
(* when the ancilla reads 0 with probability p0/ProbDenom:                 *)
(* (+1)*P(0) + (-1)*P(1).                                                  *)
ExpvalPauliZ(p0) == p0 - (ProbDenom - p0)

(* The registers 0..num_words that no row of embeddings is prepared on.    *)
EmptyRegisters(indices) ==
    (0..num_words) \ {indices[k] : k \in DOMAIN indices}

(* The positions of the sentence whose word goes to the supplementary      *)
(* register num_words.                                                     *)
SuppPositions(indices) == {k \in DOMAIN indices : indices[k] = num_words}

---------------------------------------------------------------------------
(* Training.                                                               *)

NBatches == len_sentences \div batch_size

(* np.ceil(n/2) as an integer.                                             *)
CeilHalf(n) == IF 2 * (n \div 2) = n THEN n \div 2 ELSE (n \div 2) + 1

(* The shape given to np.random.rand for parameters.                       *)
ParametersShapeMutant(q, n, l) == <<q, (n \div 2) + 1, l>>

ParametersShape(q, n, l) == <<q, CeilHalf(n) + 1, l>>

(* Number of entries of an array of the given shape.                       *)
Size(shape) == shape[1] * shape[2] * shape[3]

TrainingInit ==
    /\ pc = "training_init"
    /\ \E v \in ParamValues :
          parameters' = v /\ parameters0' = v /\ last_step' = v
    /\ parameters_shape' = ParametersShape(qbits_per_word, num_words, num_layers)
    /\ epoch' = 0 /\ i' = 0 /\ ci' = 0 /\ cost' = 0
    /\ pc' = IF epochs > 0 /\ NBatches > 0 THEN "step" ELSE "trained"
    /\ UNCHANGED <<queryVars, cfgVars, dataVars, devVars, steps, time_lines, call>>

(* batch = arange(i*batch_size, (i+1)*batch_size)                          *)
Batch(b) == [k \in 0..(batch_size - 1) |-> b * batch_size + k]

(* The row of all_indices that cost uses for element k of the batch:       *)
(* all_indices[i] with i the index of enumerate(sentences).                *)
CostIndices(b, k) == all_indices[k]

(* An exception raised inside opt.step: nothing catches it, in cost, in    *)
(* the loop or around it, and the cell ends with the traceback of err.     *)
UncaughtMutant(err) == "step"

Uncaught(err) == err

(* One iteration of the loop of cost, inside opt.step: one call of         *)
(* compute_overlap_words.  Either the device refuses the circuit           *)
(* (DeviceError), or the remote execution fails, or the circuit runs and   *)
(* the expectation of Z on the last wire is added to cost.  No exception   *)
(* is caught.                                                              *)
CostCall ==
    /\ pc = "step"
    /\ ci < batch_size
    /\ LET g       == Batch(i)[ci]
           indices == CostIndices(i, ci)
           m_w     == missing_word[g]
           rec     == [made |-> TRUE, returned |-> FALSE, g |-> g,
                       indices |-> indices,
                       target_word |-> m_w, epoch |-> epoch, i |-> i,
                       k |-> ci, p0 |-> 0, value |-> 0]
       IN  \/ /\ DeviceRejects(dev, CircuitOps(indices, m_w))
              /\ call' = rec
              /\ pc' = Uncaught("DeviceError")
              /\ UNCHANGED <<ci, cost>>
           \/ /\ ~DeviceRejects(dev, CircuitOps(indices, m_w))
              /\ dev = "braket.aws.qubit"
              /\ call' = rec
              /\ pc' = Uncaught("RemoteError")
              /\ UNCHANGED <<ci, cost>>
           \/ /\ ~DeviceRejects(dev, CircuitOps(indices, m_w))
              /\ \E p0 \in 0..ProbDenom :
                    /\ call' = [rec EXCEPT !.returned = TRUE, !.p0 = p0,
                                           !.value = ExpvalPauliZ(p0)]
                    /\ cost' = cost + ExpvalPauliZ(p0)
              /\ ci' = ci + 1
              /\ pc' = pc
    /\ UNCHANGED <<queryVars, cfgVars, dataVars, devVars, epoch, i, parameters,
                   parameters0, last_step, parameters_shape, steps, time_lines>>

(* The rest of one iteration of the training loop, once cost_batch has     *)
(* returned: opt.step returns the new parameters and 'Time:' is printed.   *)
OptStep ==
    /\ pc = "step"
    /\ ci = batch_size
    /\ \E v \in ParamValues : parameters' = v /\ last_step' = v
    /\ steps' = steps + 1
    /\ time_lines' = time_lines + 1
    /\ ci' = 0
    /\ cost' = 0
    /\ IF i + 1 < NBatches
          THEN i' = i + 1 /\ epoch' = epoch /\ pc' = "step"
          ELSE /\ i' = 0
               /\ epoch' = epoch + 1
               /\ pc' = IF epoch + 1 < epochs THEN "step" ELSE "trained"
    /\ UNCHANGED <<queryVars, cfgVars, dataVars, devVars, parameters0,
                   parameters_shape, call>>

(* The state before the first cell has run, but for the configuration     *)
(* and the size of the data set.                                           *)
Blank ==
    /\ missing_word = <<>>
    /\ all_indices = <<>>
    /\ n_dim = 0 /\ reduced_columns = 0
    /\ n_wires = 0
    /\ dev = "none"
    /\ epoch = 0 /\ i = 0 /\ ci = 0 /\ cost = 0
    /\ parameters = 0 /\ parameters0 = 0 /\ last_step = 0
    /\ parameters_shape = <<>>
    /\ steps = 0 /\ time_lines = 0
    /\ call = NoCall
    /\ vocab = <<>> /\ embeddings_norm = <<>>
    /\ id_to_word = <<>> /\ word_indices = <<>>
    /\ list_index = <<>> /\ missing_index = 0
    /\ caller = "none" /\ position = 0
    /\ look_in = None /\ query_indices = <<>> /\ probas = <<>>
    /\ p = <<>> /\ ranking = <<>> /\ printed = <<>>
    /\ encoded = NoRows

(* Spec: the notebook up to the end of training.  The control flow of      *)
(* these cells reads neither qbits_per_word nor num_layers.                *)
Init ==
    /\ Blank
    /\ pc = "preprocess"
    /\ num_words \in 2..MaxNumWords
    /\ qbits_per_word = 1
    /\ num_layers = 1
    /\ len_sentences \in 0..MaxSentences

Next == Preprocess \/ SetUp \/ TrainingInit \/ CostCall \/ OptStep

Spec == Init /\ [][Next]_vars

(* SpecConfig: the same cells over the configurations, on an empty data    *)
(* set (the training loop has no batch to run).                            *)
InitConfig ==
    /\ Blank
    /\ pc = "preprocess"
    /\ num_words \in 1..CfgMaxNumWords
    /\ qbits_per_word \in 1..CfgMaxQubits
    /\ num_layers \in 1..CfgMaxLayers
    /\ len_sentences = 0

NextConfig == Preprocess \/ SetUp \/ TrainingInit

SpecConfig == InitConfig /\ [][NextConfig]_vars

---------------------------------------------------------------------------
(* Wires.                                                                  *)

(* dev.wires of a device made with wires=n: the wires 0..n-1.              *)
DevWires(n) == [k \in 0..(n - 1) |-> k]

(* wires[-1]: the last entry.                                              *)
LastWire(wires) == wires[Cardinality(DOMAIN wires) - 1]

(* The wires of register r, registers of q qubits being stacked one after  *)
(* the other.                                                              *)
RegisterWires(r, q) == {r * q + b : b \in 0..(q - 1)}

(* The wires of the num_words sentence registers and of the supplementary  *)
(* register.                                                               *)
(* The basis states of a register of q qubits: one amplitude each.         *)
BasisStates(q) == [1..q -> {0, 1}]

WordWires == UNION {RegisterWires(r, qbits_per_word) : r \in 0..num_words}

---------------------------------------------------------------------------
(* Claims about preprocessing and training (Spec).                         *)

(* C1: in every call cost makes to compute_overlap_words, the register     *)
(* the index row leaves without an embedding is register target_word of    *)
(* that call, the word routed to the supplementary register is the         *)
(* sentence's word at position target_word, the row is all_indices[g] and  *)
(* the target is missing_word[g], g being the sentence's global index.     *)
C1_MaskedRegisterIsTarget ==
    call.made =>
        /\ EmptyRegisters(call.indices) = {call.target_word}
        /\ SuppPositions(call.indices) = {call.target_word}
        /\ call.indices = all_indices[call.g]
        /\ call.target_word = missing_word[call.g]

(* C2: on the device that refuses a state preparation applied after other  *)
(* operations, no optimizer step completes, no 'Time:' line is printed,    *)
(* parameters keeps its initial value, and the one circuit evaluation      *)
(* made, the first of the first step, ended the loop with a DeviceError;   *)
(* the loop reaches its end only when it has no batch to run.              *)
C2_LocalDeviceTrainingFails ==
    dev = "default.qubit" =>
        /\ steps = 0
        /\ time_lines = 0
        /\ pc \in {"step", "DeviceError", "trained"} => parameters = parameters0
        /\ call.made =>
              /\ pc = "DeviceError"
              /\ call.epoch = 0 /\ call.i = 0 /\ call.k = 0
              /\ ~call.returned
        /\ pc = "trained" => NBatches = 0
        /\ pc # "RemoteError"

C2_Witness ==
    /\ dev = "default.qubit"
    /\ pc = "DeviceError"
    /\ call.made
    /\ NBatches > 1

(* C3: after preprocessing every sentence has exactly one masked position: *)
(* its row has num_words entries, num_words at column missing_word[s] and  *)
(* j at every other column j, so the entries are pairwise distinct, lie in *)
(* 0..num_words, and missing_word[s] is none of them.                      *)
C3_OneMaskPerSentence ==
    pc # "preprocess" =>
        /\ DOMAIN all_indices = 0..(len_sentences - 1)
        /\ \A s \in 0..(len_sentences - 1) :
              LET row == all_indices[s] IN
              /\ DOMAIN row = 0..(num_words - 1)
              /\ row[missing_word[s]] = num_words
              /\ \A j \in DOMAIN row : j # missing_word[s] => row[j] = j
              /\ \A j, k \in DOMAIN row : j # k => row[j] # row[k]
              /\ \A j \in DOMAIN row : row[j] \in 0..num_words
              /\ \A j \in DOMAIN row : row[j] # missing_word[s]
              /\ Cardinality({j \in DOMAIN row : row[j] = num_words}) = 1

C3_Witness ==
    /\ pc = "trained"
    /\ len_sentences >= 2
    /\ missing_word[0] # missing_word[1]
    /\ steps > 0

(* C8: the value compute_overlap_words returns is the probability that     *)
(* the ancilla (the last wire) reads 0, and the running cost of the batch  *)
(* is a sum of such probabilities.                                         *)
C8_CostIsProbabilityOfZero ==
    /\ call.returned => call.value = call.p0
    /\ cost >= 0

---------------------------------------------------------------------------
(* Claims about the sizes (SpecConfig).                                    *)

(* C9: n_wires = Q*(N+1)+1, one Q-qubit register per sentence word, one    *)
(* supplementary register and one ancilla: 16 for N=4, Q=3 and 25 for      *)
(* N=5, Q=4; the measured wire wires[-1] is wire Q*(N+1), which belongs to *)
(* none of the N+1 word registers.                                         *)
C9_NumberOfWires ==
    pc \in {"training_init", "trained"} =>
        /\ n_wires = qbits_per_word * (num_words + 1) + 1
        /\ n_wires = Cardinality(WordWires) + 1
        /\ num_words = 4 /\ qbits_per_word = 3 => n_wires = 16
        /\ num_words = 5 /\ qbits_per_word = 4 => n_wires = 25
        /\ LastWire(DevWires(n_wires)) = qbits_per_word * (num_words + 1)
        /\ LastWire(DevWires(n_wires)) \notin WordWires
        /\ WordWires \subseteq DOMAIN DevWires(n_wires)

C9_Witness ==
    /\ pc = "training_init"
    /\ num_words = 5
    /\ qbits_per_word = 4
    /\ n_wires = 25

(* C10: parameters has Q*(ceil(N/2)+1)*L entries, which is Q*(1+N/2)*L for *)
(* every even N, and 27 for N=4, Q=3, L=3.                                 *)
C10_NumberOfParameters ==
    pc = "trained" =>
        LET cnt == Size(parameters_shape)
            c   == CHOOSE c \in 0..num_words :
                       2 * c >= num_words /\ 2 * (c - 1) < num_words
        IN  /\ cnt = qbits_per_word * (c + 1) * num_layers
            /\ num_words % 2 = 0 =>
                  2 * cnt = qbits_per_word * (2 + num_words) * num_layers
            /\ num_words = 4 /\ qbits_per_word = 3 /\ num_layers = 3 => cnt = 27

C10_Witness ==
    /\ pc = "trained"
    /\ num_words = 4 /\ qbits_per_word = 3 /\ num_layers = 3
    /\ Size(parameters_shape) = 27

---------------------------------------------------------------------------
(* The vocabulary.  A Python dict is a sequence of items in insertion      *)
(* order; a Python list is a function on 0..n-1.                           *)

PyList(seq) == [j \in 0..(Len(seq) - 1) |-> seq[j + 1]]

PyLen(lst) == Cardinality(DOMAIN lst)

PyAppend(lst, x) ==
    [j \in 0..PyLen(lst) |-> IF j < PyLen(lst) THEN lst[j] ELSE x]

DictHas(d, key) == \E n \in 1..Len(d) : d[n].key = key

DictGet(d, key) == d[CHOOSE n \in 1..Len(d) : d[n].key = key].value

DictKeys(d) == PyList([n \in 1..Len(d) |-> d[n].key])

(* input_sentence.split(' ')                                               *)
list_words ==
    PyList(<<"january", "[mask]", "within", "million", "march", "1986",
             "spacecraft">>)

(* The words of the vocabulary: those of the example sentence.             *)
VocabWords ==
    <<"january", "within", "million", "march", "1986", "spacecraft">>

(* vocab.p: the ids are 0..V-1, given in insertion order or against it.    *)
VocabChoices ==
    LET V == Len(VocabWords)
    IN  { [n \in 1..V |-> [key |-> VocabWords[n], value |-> n - 1]],
          [n \in 1..V |-> [key |-> VocabWords[n], value |-> V - n]] }

(* The rows of embeddings_reduced_norm have norm 1, or 0 when the reduced  *)
(* embedding is zero.                                                      *)
EmbeddingNorms ==
    LET Ids == 0..(Len(VocabWords) - 1)
    IN  { f \in [Ids -> {0, 1}] :
            Cardinality({id \in Ids : f[id] = 0}) <= MaxZeroNorm }

IdToWord(voc, norm) ==
    LET kept == SelectSeq(voc, LAMBDA item : norm[item.value] > 0)
    IN  [n \in 1..Len(kept) |-> [key |-> kept[n].value, value |-> kept[n].key]]

LoadVocab ==
    /\ pc = "load_vocab"
    /\ \E voc \in VocabChoices, norm \in EmbeddingNorms :
          /\ vocab' = voc
          /\ embeddings_norm' = norm
          /\ id_to_word' = IdToWord(voc, norm)
          /\ word_indices' = DictKeys(IdToWord(voc, norm))
    /\ pc' = "application"
    /\ UNCHANGED <<cfgVars, dataVars, devVars, trainVars, encVars,
                   callVars, rankVars>>

---------------------------------------------------------------------------
(* The application cell: get_most_probable_word and its call.              *)

(* The loop over list_words: the ids of the words, the position of the     *)
(* mask.                                                                   *)
RECURSIVE ParseWords(_, _, _, _)
ParseWords(voc, n, ids, mask) ==
    IF n = PyLen(list_words)
    THEN [list_index |-> ids, missing_index |-> mask]
    ELSE IF list_words[n] = "[mask]"
         THEN ParseWords(voc, n + 1, ids, n)
         ELSE ParseWords(voc, n + 1, PyAppend(ids, DictGet(voc, list_words[n])),
                         mask)

(* Sentence position of each word of list_index.                           *)
RECURSIVE WordPositions(_, _)
WordPositions(n, acc) ==
    IF n = PyLen(list_words) THEN acc
    ELSE IF list_words[n] = "[mask]" THEN WordPositions(n + 1, acc)
         ELSE WordPositions(n + 1, PyAppend(acc, n))

ParseSentence ==
    /\ pc = "application"
    /\ list_index' = ParseWords(vocab, 0, <<>>, 0).list_index
    /\ missing_index' = ParseWords(vocab, 0, <<>>, 0).missing_index
    /\ pc' = "draw_look_in"
    /\ UNCHANGED <<cfgVars, dataVars, devVars, trainVars, encVars,
                   vocabVars, rankVars,
                   caller, position, look_in, query_indices, probas>>

(* look_in = np.random.randint(len(word_indices), size=...).astype(int)    *)
DrawLookIn ==
    /\ pc = "draw_look_in"
    /\ \E a \in RandInt(0, PyLen(word_indices), LookInSize) :
          look_in' = NdArray(a)
    /\ pc' = "call"
    /\ UNCHANGED <<cfgVars, dataVars, devVars, trainVars, encVars,
                   vocabVars, rankVars,
                   list_index, missing_index, caller, position, query_indices,
                   probas>>

(* lst[x] for a Python list: an integer selects an element; an array is    *)
(* not an index (TypeError: only integer scalar arrays can be converted    *)
(* to a scalar index).  An array of one element is either refused the same *)
(* way or converted to an integer, and enumerate of the element found      *)
(* raises TypeError as well.                                               *)
ListGetItem(lst, x) ==
    IF x.kind = "int"
    THEN IF x.data \in DOMAIN lst
         THEN [ok |-> TRUE, value |-> lst[x.data]]
         ELSE [ok |-> FALSE, error |-> "IndexError"]
    ELSE [ok |-> FALSE, error |-> "TypeError"]

(* The list indices built by get_most_probable_word.                       *)
RECURSIVE QueryIndicesLoop(_, _, _)
QueryIndicesLoop(n, pos, acc) ==
    IF n = num_words THEN PyAppend(acc, num_words)
    ELSE IF n # pos THEN QueryIndicesLoop(n + 1, pos, PyAppend(acc, n))
         ELSE QueryIndicesLoop(n + 1, pos, acc)

(* get_most_probable_word(sentence, pos, look_in=arg), from its first line *)
(* to its return or to the exception that ends it.                         *)
GetMostProbableWord(who, pos, arg) ==
    /\ caller' = who
    /\ position' = pos
    /\ IF ~(pos < num_words)
       THEN /\ pc' = "AssertionError"
            /\ UNCHANGED <<look_in, query_indices, probas>>
       ELSE LET cand  == IF arg = None
                         THEN NdArray(Arange(PyLen(word_indices)))
                         ELSE arg
                items == ListGetItem(word_indices, cand)
            IN  /\ look_in' = cand
                /\ query_indices' = QueryIndicesLoop(0, pos, <<>>)
                /\ IF items.ok
                   THEN /\ \E f \in [DOMAIN items.value -> 0..ProbDenom] :
                              probas' = [k \in DOMAIN f |-> ExpvalPauliZ(f[k])]
                        /\ pc' = "returned"
                   ELSE /\ probas' = <<>>
                        /\ pc' = items.error
    /\ UNCHANGED <<cfgVars, dataVars, devVars, trainVars, encVars,
                   vocabVars, rankVars,
                   list_index, missing_index>>

(* p = get_most_probable_word(list_index, 4, look_in=look_in)              *)
ExampleCall ==
    /\ pc = "call"
    /\ GetMostProbableWord("example", ExamplePosition, look_in)

(* get_most_probable_word(list_index, position): look_in omitted.          *)
DefaultCall ==
    /\ pc = "call"
    /\ \E pos \in 0..(QueryMaxNumWords - 1) :
          GetMostProbableWord("default", pos, None)

InitQuery ==
    /\ Blank
    /\ pc = "load_vocab"
    /\ num_words \in 1..QueryMaxNumWords
    /\ qbits_per_word = 1
    /\ num_layers = 1
    /\ len_sentences = 0

NextQuery ==
    \/ LoadVocab
    \/ ParseSentence
    \/ DrawLookIn
    \/ ExampleCall
    \/ DefaultCall

SpecQuery == InitQuery /\ [][NextQuery]_vars

(* C5: in the application example the position given to                    *)
(* get_most_probable_word is the position of '[mask]' in input_sentence    *)
(* (missing_index), so that each remaining word of the sentence goes to    *)
(* the register of its own position in the sentence.                       *)
C5_PositionIsMaskPosition ==
    caller = "example" =>
        /\ position = missing_index
        /\ pc # "AssertionError" /\ num_words = PyLen(list_words) =>
              \A k \in DOMAIN list_index :
                  /\ k \in DOMAIN query_indices
                  /\ query_indices[k] = WordPositions(0, <<>>)[k]

(* C7: get_most_probable_word returns one score per candidate, in          *)
(* candidate order: as many scores as look_in has entries, and as many as  *)
(* the dictionary word_indices has words when look_in is omitted.          *)
C7_OneScorePerCandidate ==
    caller # "none" /\ position < num_words =>
        /\ pc = "returned"
        /\ DOMAIN probas = DOMAIN look_in.data
        /\ caller = "default" => DOMAIN probas = DOMAIN word_indices
        /\ \A k \in DOMAIN probas : look_in.data[k] \in DOMAIN word_indices

---------------------------------------------------------------------------
(* The ranking the application cell prints,                                *)
(*   ' '.join(id_to_word[int(look_in[i])]                                  *)
(*            for i in np.argsort(p)[::-1][0:TopK]),                       *)
(* as a function of look_in and of the list p of scores, one score of      *)
(* compute_overlap_words per entry of look_in.                             *)

Permutations0(n) ==
    {f \in [0..(n - 1) -> 0..(n - 1)] :
        \A a, b \in 0..(n - 1) : a # b => f[a] # f[b]}

(* np.argsort(x): x is ascending along the result; the order of equal      *)
(* entries is the sort's.                                                  *)
Argsort(x) ==
    {f \in Permutations0(PyLen(x)) :
        \A a, b \in DOMAIN f : a < b => x[f[a]] <= x[f[b]]}

(* lst[::-1]                                                               *)
Reversed(lst) == [j \in DOMAIN lst |-> lst[PyLen(lst) - 1 - j]]

(* lst[0:k]                                                                *)
Slice0(lst, k) ==
    [j \in 0..((IF k < PyLen(lst) THEN k ELSE PyLen(lst)) - 1) |-> lst[j]]

ScoreValues == {ExpvalPauliZ(p0) : p0 \in 0..ProbDenom}

(* opt.step(cost_batch, parameters) descends the gradient of cost_batch:   *)
(* of two values of the objective the optimizer moves towards the lower.   *)
StepPrefers(c1, c2) == c1 < c2

(* The inputs of the expression: look_in as drawn by the cell, p a list    *)
(* of len(look_in) scores.                                                 *)
RankInputs ==
    /\ pc = "application"
    /\ \E a \in RandInt(0, PyLen(word_indices), LookInSize) :
          look_in' = NdArray(a)
    /\ p' \in [0..(LookInSize - 1) -> ScoreValues]
    /\ pc' = "print"
    /\ UNCHANGED <<cfgVars, dataVars, devVars, trainVars, encVars,
                   vocabVars,
                   list_index, missing_index, caller, position, query_indices,
                   probas, ranking, printed>>

PrintMostProbable ==
    /\ pc = "print"
    /\ \E order \in Argsort(p) :
          LET top == Slice0(Reversed(order), TopK)
          IN  /\ ranking' = top
              /\ IF \A r \in DOMAIN top :
                       DictHas(id_to_word, look_in.data[top[r]])
                 THEN /\ printed' =
                            [r \in DOMAIN top |->
                                DictGet(id_to_word, look_in.data[top[r]])]
                      /\ pc' = "printed"
                 ELSE /\ printed' = <<>>
                      /\ pc' = "KeyError"
    /\ UNCHANGED <<cfgVars, dataVars, devVars, trainVars, encVars,
                   vocabVars, callVars,
                   p>>

NextRank ==
    \/ LoadVocab
    \/ RankInputs
    \/ PrintMostProbable

SpecRank == InitQuery /\ [][NextRank]_vars

---------------------------------------------------------------------------
(* C11: when a circuit evaluation fails during an optimizer step, the loop *)
(* stops there: the steps completed are exactly those before the failing   *)
(* one, nothing runs afterwards, and parameters holds the value the last   *)
(* completed step returned (the initial value if there is none).           *)
C11_FailureStopsTraining ==
    call.made /\ ~call.returned =>
        /\ pc \in {"DeviceError", "RemoteError"}
        /\ ~ENABLED Next
        /\ epoch = call.epoch /\ i = call.i /\ ci = call.k
        /\ steps = call.epoch * NBatches + call.i
        /\ time_lines = steps
        /\ parameters = last_step
        /\ steps = 0 => parameters = parameters0

C11_Witness ==
    /\ pc = "RemoteError"
    /\ call.made /\ ~call.returned
    /\ call.epoch = 1 /\ call.i = 1 /\ call.k = 1
    /\ steps = 3
    /\ parameters # parameters0

(* C12: the mask of a sentence is a valid word position, 0 <=              *)
(* missing_word[s] < num_words, it is drawn once by the preprocessing and  *)
(* no later step changes it, and every call of every epoch uses            *)
(* missing_word[g] for the sentence of global index g.                     *)
C12_MaskValidAndFixed ==
    [][ /\ pc' # "preprocess" =>
              /\ DOMAIN missing_word' = 0..(len_sentences' - 1)
              /\ \A s \in DOMAIN missing_word' :
                    missing_word'[s] \in 0..(num_words' - 1)
        /\ pc # "preprocess" => missing_word' = missing_word
        /\ call'.made => call'.target_word = missing_word'[call'.g] ]_vars

C12_Witness ==
    /\ pc = "trained"
    /\ steps = epochs * NBatches
    /\ NBatches = 2
    /\ call.returned /\ call.epoch = 1 /\ call.g = 3
    /\ call.target_word = missing_word[3]
    /\ missing_word[3] # missing_word[1]

(* C13: n_dim = 2**qbits_per_word: a reduced word vector has as many       *)
(* components as a register of qbits_per_word qubits has amplitudes, 8 for *)
(* a register of 3 qubits.                                                 *)
C13_DimensionMatchesRegister ==
    pc # "preprocess" =>
        /\ n_dim = Cardinality(BasisStates(qbits_per_word))
        /\ reduced_columns = n_dim
        /\ qbits_per_word = 3 => n_dim = 8

C13_Witness ==
    /\ pc = "setup"
    /\ qbits_per_word = 3
    /\ reduced_columns = 8

---------------------------------------------------------------------------
(* The word vectors handed to the circuit: embeddings_reduced_norm[ids],   *)
(* in cost for a training sentence and in get_most_probable_word for the   *)
(* query sentence.  A row is kept by its norm.                             *)

EmbeddingRows(ids) == [k \in DOMAIN ids |-> embeddings_norm[ids[k]]]

(* sentences[:, 0:max_length]: the length of a truncated sentence.         *)
TruncatedLen(columns, max_length) ==
    IF max_length < columns THEN max_length ELSE columns

(* cost: embeddings = embeddings_reduced_norm[sentence], for a row of      *)
(* sentences_truncated, which holds ids of embeddings.npy as loaded.       *)
CostEmbeddings ==
    /\ pc = "application"
    /\ \E sentence \in [0..(TruncatedLen(DataMaxSentenceLen, num_words) - 1)
                          -> DOMAIN embeddings_norm] :
          encoded' = [cell |-> "cost", ids |-> sentence,
                      rows |-> EmbeddingRows(sentence)]
    /\ pc' = "cost_embeddings"
    /\ UNCHANGED <<cfgVars, dataVars, devVars, trainVars, vocabVars, callVars,
                   rankVars>>

(* get_most_probable_word: embeddings_input =                              *)
(* embeddings_reduced_norm[sentence], for list_index of the example.       *)
QueryEmbeddings ==
    /\ pc = "application"
    /\ LET ids == ParseWords(vocab, 0, <<>>, 0).list_index
       IN  encoded' = [cell |-> "query", ids |-> ids,
                       rows |-> EmbeddingRows(ids)]
    /\ pc' = "query_embeddings"
    /\ UNCHANGED <<cfgVars, dataVars, devVars, trainVars, vocabVars, callVars,
                   rankVars>>

NextData ==
    \/ LoadVocab
    \/ CostEmbeddings
    \/ QueryEmbeddings

SpecData == InitQuery /\ [][NextData]_vars

(* C14: every word vector that is encoded is non-zero: a word of zero      *)
(* norm is in neither id_to_word nor word_indices, so every candidate has  *)
(* a non-zero row, and so has every word of a training sentence and of a   *)
(* query sentence.                                                         *)
C14_EncodedVectorsAreNonZero ==
    pc # "load_vocab" =>
        /\ \A id \in DOMAIN embeddings_norm :
              embeddings_norm[id] = 0 =>
                  /\ ~DictHas(id_to_word, id)
                  /\ \A j \in DOMAIN word_indices : word_indices[j] # id
        /\ \A j \in DOMAIN word_indices : embeddings_norm[word_indices[j]] > 0
        /\ \A k \in DOMAIN encoded.rows : encoded.rows[k] > 0

===========================================================================
